---- MODULE Spec2Model ----
(***************************************************************************)
(* Job/layer assembly and command construction of cuesubmit/Submission.py. *)
(*                                                                         *)
(* A Python str is a sequence of one-character strings; a Python list is a *)
(* sequence of such values.  None, True and False are the one-element      *)
(* sequences below, which no str equals (a str holds single characters).   *)
(***************************************************************************)
EXTENDS Integers, Sequences, FiniteSets, TLC

VARIABLES jobData, pc, i, command, layer, ol, lastLayer, launchCalls, launchOut,
          result, arg, out

vars == <<jobData, pc, i, command, layer, ol, lastLayer, launchCalls, launchOut,
          result, arg, out>>

(***************************************************************************)
(* Bounds of the model.                                                    *)
(***************************************************************************)
\* The longest list of layers a job is given.
MaxLayers == 3

(***************************************************************************)
(* Python values.                                                          *)
(***************************************************************************)
None == <<"None">>

True == <<"True">>

False == <<"False">>

\* bool(v) of a str, None, True or False.
Truthy(v) == v # None /\ v # False /\ v # <<>>

\* `value in ('', None)` / `value not in ('', None)`.
InEmptyOrNone(v) == v = <<>> \/ v = None

\* str(v), as an f-string renders a value.
Format(v) ==
    IF v = None THEN <<"N", "o", "n", "e">>
    ELSE IF v = True THEN <<"T", "r", "u", "e">>
    ELSE IF v = False THEN <<"F", "a", "l", "s", "e">>
    ELSE v

Last(s) == s[Len(s)]

Front(s) == SubSeq(s, 1, Len(s) - 1)

(***************************************************************************)
(* The regular expressions of isSoloFlag and isFlag.                       *)
(***************************************************************************)
\* \w of Python's re, over the characters the model uses.
WordChars ==
    {"a", "b", "c", "d", "e", "f", "g", "h", "i", "j", "k", "l", "m", "n", "o",
     "p", "q", "r", "s", "t", "u", "v", "w", "x", "y", "z", "A", "B", "C", "D",
     "E", "F", "G", "H", "I", "J", "K", "L", "M", "N", "O", "P", "Q", "R", "S",
     "T", "U", "V", "W", "X", "Y", "Z", "0", "1", "2", "3", "4", "5", "6", "7",
     "8", "9", "_"}

DigitChars == {"0", "1", "2", "3", "4", "5", "6", "7", "8", "9"}

\* The whole of s is -+\w+ .
DashesThenWord(s) ==
    \E d \in 1..(Len(s) - 1) :
        /\ \A k \in 1..d : s[k] = "-"
        /\ \A k \in (d + 1)..Len(s) : s[k] \in WordChars

\* The whole of s is -+\w+~ .
DashesWordTilde(s) ==
    /\ Len(s) >= 1
    /\ Last(s) = "~"
    /\ DashesThenWord(Front(s))

\* re.match(r"^-+\w+~$", flag): `$` matches at the end of the string and
\* also just before a newline that ends the string.
isSoloFlag(flag) ==
    \/ DashesWordTilde(flag)
    \/ (Len(flag) >= 1 /\ Last(flag) = "\n" /\ DashesWordTilde(Front(flag)))

\* re.match(r"^-+\w+$", flag).
isFlag(flag) ==
    \/ DashesThenWord(flag)
    \/ (Len(flag) >= 1 /\ Last(flag) = "\n" /\ DashesThenWord(Front(flag)))

(***************************************************************************)
(* formatValue and buildDynamicCmd.                                        *)
(***************************************************************************)
MissingValue(flag) ==
    <<"!", "!", "m", "i", "s", "s", "i", "n", "g", " ", "v", "a", "l", "u",
      "e", " ", "f", "o", "r", " ">> \o Format(flag) \o <<"!", "!">>

\* (mutant) a path is quoted even when it is empty.
formatValueMutQuoteFirst(flag, value, isPath, isMandatory) ==
    IF isPath THEN <<"\"">> \o Format(value) \o <<"\"">>
    ELSE IF isMandatory /\ InEmptyOrNone(value) THEN MissingValue(flag)
    ELSE value

\* (mutant) a path is not quoted.
formatValueMutNoQuote(flag, value, isPath, isMandatory) ==
    IF isMandatory /\ InEmptyOrNone(value) THEN MissingValue(flag) ELSE value

\* (mutant) a mandatory path is left unquoted.
formatValueMutMandatoryBare(flag, value, isPath, isMandatory) ==
    LET quoted == IF isPath /\ Truthy(value) /\ ~isMandatory
                  THEN <<"\"">> \o Format(value) \o <<"\"">>
                  ELSE value
    IN  IF isMandatory /\ InEmptyOrNone(quoted)
        THEN MissingValue(flag)
        ELSE quoted

formatValue(flag, value, isPath, isMandatory) ==
    LET quoted == IF isPath /\ Truthy(value)
                  THEN <<"\"">> \o Format(value) \o <<"\"">>
                  ELSE value
    IN  IF isMandatory /\ InEmptyOrNone(quoted)
        THEN MissingValue(flag)
        ELSE quoted

\* (mutant) a solo flag is followed by its value.
DynamicItemMutSoloValue(item) ==
    LET flag == item[1][1]
        value == formatValue(flag, item[2], item[1][2], item[1][3])
    IN  IF isSoloFlag(flag)
        THEN <<" ">> \o Front(flag) \o <<" ">> \o Format(value)
        ELSE IF isFlag(flag) /\ ~InEmptyOrNone(value)
        THEN <<" ">> \o flag \o <<" ">> \o Format(value)
        ELSE IF ~InEmptyOrNone(value)
        THEN <<" ">> \o Format(value)
        ELSE <<>>

\* What one item of layerData.cmd, ((flag, isPath, isMandatory), value),
\* adds to renderCommand (lines 63-73).
DynamicItem(item) ==
    LET flag == item[1][1]
        value == formatValue(flag, item[2], item[1][2], item[1][3])
    IN  IF isSoloFlag(flag)
        THEN <<" ">> \o Front(flag)
        ELSE IF isFlag(flag) /\ ~InEmptyOrNone(value)
        THEN <<" ">> \o flag \o <<" ">> \o Format(value)
        ELSE IF ~InEmptyOrNone(value)
        THEN <<" ">> \o Format(value)
        ELSE <<>>

RECURSIVE DynamicItems(_)
DynamicItems(items) ==
    IF items = <<>> THEN <<>>
    ELSE DynamicItem(Head(items)) \o DynamicItems(Tail(items))

(***************************************************************************)
(* Constants.py and JobTypes.py (not among the source files): the command  *)
(* names, the frame tokens the farm substitutes, and the engine keys.      *)
(***************************************************************************)
MAYA_RENDER_CMD == <<"R", "e", "n", "d", "e", "r">>

NUKE_RENDER_CMD == <<"n", "u", "k", "e">>

BLENDER_RENDER_CMD == <<"b", "l", "e", "n", "d", "e", "r">>

FRAME_TOKEN == <<"#", "I", "F", "R", "A", "M", "E", "#">>

FRAME_START_TOKEN == <<"#", "F", "R", "A", "M", "E", "_", "S", "T", "A", "R", "T", "#">>

FRAME_END_TOKEN == <<"#", "F", "R", "A", "M", "E", "_", "E", "N", "D", "#">>

MAYA == <<"M", "a", "y", "a">>

NUKE == <<"N", "u", "k", "e">>

SHELL == <<"S", "h", "e", "l", "l">>

BLENDER == <<"B", "l", "e", "n", "d", "e", "r">>

\* The one engine described by the configuration table, and its base command.
ARNOLD == <<"A", "r", "n", "o", "l", "d">>

FROM_CONFIG_FILE == {ARNOLD}

RENDER_CMDS(layerType) == <<"k", "i", "c", "k">>

(***************************************************************************)
(* What a builder call produces: a list, a str, or a raised exception.     *)
(***************************************************************************)
ReturnList(l) == [kind |-> "list", list |-> l, str |-> <<>>, err |-> "-"]

ReturnStr(s) == [kind |-> "str", list |-> <<>>, str |-> s, err |-> "-"]

Raise(e) == [kind |-> "raise", list |-> <<>>, str |-> <<>>, err |-> e]

\* layerData.cmd is an insertion-ordered mapping: a sequence of <<key, value>>
\* with distinct keys.  A named-engine key is <<name>>; a dynamic key is
\* <<flag, isPath, isMandatory>>.
HasKey(cmd, name) == \E k \in 1..Len(cmd) : cmd[k][1] = <<name>>

\* cmd.get(name, default)
Get(cmd, name, default) ==
    IF HasKey(cmd, name)
    THEN cmd[CHOOSE k \in 1..Len(cmd) : cmd[k][1] = <<name>>][2]
    ELSE default

buildDynamicCmd(layerData) ==
    RENDER_CMDS(layerData.layerType) \o DynamicItems(layerData.cmd)

(***************************************************************************)
(* shlex.split(s): posix mode, whitespace_split, no comment characters.    *)
(* state is shlex's own: " " between tokens, "a" inside a word, a quote    *)
(* character inside a quoted part, "\\" after an escape character.         *)
(***************************************************************************)
ShlexWhitespace == {" ", "\t", "\r", "\n"}

ShlexQuotes == {"'", "\""}

RECURSIVE ShlexRun(_, _, _, _, _, _, _)
ShlexRun(s, k, state, escapedstate, token, quoted, tokens) ==
    IF k > Len(s)
    THEN IF state \in ShlexQuotes \/ state = "\\"
         THEN [ok |-> FALSE, tokens |-> <<>>]
         ELSE IF state = "a" /\ (token # <<>> \/ quoted)
         THEN [ok |-> TRUE, tokens |-> Append(tokens, token)]
         ELSE [ok |-> TRUE, tokens |-> tokens]
    ELSE
      LET c == s[k] IN
      IF state = " "
      THEN IF c \in ShlexWhitespace
           THEN ShlexRun(s, k + 1, " ", escapedstate, token, quoted, tokens)
           ELSE IF c = "\\"
           THEN ShlexRun(s, k + 1, "\\", "a", token, quoted, tokens)
           ELSE IF c \in ShlexQuotes
           THEN ShlexRun(s, k + 1, c, escapedstate, token, quoted, tokens)
           ELSE ShlexRun(s, k + 1, "a", escapedstate, <<c>>, quoted, tokens)
      ELSE IF state \in ShlexQuotes
      THEN IF c = state
           THEN ShlexRun(s, k + 1, "a", escapedstate, token, TRUE, tokens)
           ELSE IF c = "\\" /\ state = "\""
           THEN ShlexRun(s, k + 1, "\\", state, token, TRUE, tokens)
           ELSE ShlexRun(s, k + 1, state, escapedstate, token \o <<c>>, TRUE, tokens)
      ELSE IF state = "\\"
      THEN LET kept == IF escapedstate \in ShlexQuotes /\ c # "\\" /\ c # escapedstate
                       THEN token \o <<"\\", c>>
                       ELSE token \o <<c>>
           IN  ShlexRun(s, k + 1, escapedstate, escapedstate, kept, quoted, tokens)
      ELSE \* state = "a"
           IF c \in ShlexWhitespace
           THEN IF token # <<>> \/ quoted
                THEN ShlexRun(s, k + 1, " ", escapedstate, <<>>, FALSE,
                              Append(tokens, token))
                ELSE ShlexRun(s, k + 1, " ", escapedstate, token, quoted, tokens)
           ELSE IF c \in ShlexQuotes
           THEN ShlexRun(s, k + 1, c, escapedstate, token, quoted, tokens)
           ELSE IF c = "\\"
           THEN ShlexRun(s, k + 1, "\\", "a", token, quoted, tokens)
           ELSE ShlexRun(s, k + 1, "a", escapedstate, token \o <<c>>, quoted, tokens)

\* [ok |-> FALSE] is shlex's ValueError (no closing quotation, no escaped
\* character).
shlex_split(s) == ShlexRun(s, 1, " ", " ", <<>>, FALSE, <<>>)

(***************************************************************************)
(* The named-engine builders and the dispatch.                             *)
(***************************************************************************)
\* (mutant) the missing file is fatal in preview mode too.
buildMayaCmdMutNoSilent(layerData, silent) ==
    LET camera == Get(layerData.cmd, "camera", None)
        mayaFile == Get(layerData.cmd, "mayaFile", None)
        args == <<MAYA_RENDER_CMD, <<"-", "r">>, <<"f", "i", "l", "e">>, <<"-", "s">>,
                  FRAME_START_TOKEN, <<"-", "e">>, FRAME_END_TOKEN>>
        withCam == IF Truthy(camera) THEN args \o <<<<"-", "c", "a", "m">>, camera>>
                   ELSE args
    IN  IF ~Truthy(mayaFile)
        THEN Raise("ValueError")
        ELSE ReturnList(Append(withCam, mayaFile))

buildMayaCmd(layerData, silent) ==
    LET camera == Get(layerData.cmd, "camera", None)
        mayaFile == Get(layerData.cmd, "mayaFile", None)
        args == <<MAYA_RENDER_CMD, <<"-", "r">>, <<"f", "i", "l", "e">>, <<"-", "s">>,
                  FRAME_START_TOKEN, <<"-", "e">>, FRAME_END_TOKEN>>
        withCam == IF Truthy(camera) THEN args \o <<<<"-", "c", "a", "m">>, camera>>
                   ELSE args
    IN  IF ~Truthy(mayaFile) /\ ~silent
        THEN Raise("ValueError")
        ELSE ReturnList(Append(withCam, mayaFile))

buildNukeCmd(layerData, silent) ==
    LET writeNodes == Get(layerData.cmd, "writeNodes", None)
        nukeFile == Get(layerData.cmd, "nukeFile", None)
        args == <<NUKE_RENDER_CMD, <<"-", "F">>, FRAME_TOKEN>>
        withNodes == IF Truthy(writeNodes) THEN args \o <<<<"-", "X">>, writeNodes>>
                     ELSE args
    IN  IF ~Truthy(nukeFile) /\ ~silent
        THEN Raise("ValueError")
        ELSE ReturnList(withNodes \o <<<<"-", "x">>, nukeFile>>)

\* re.match(r"^\d+-\d+$", frameRange)
IsFrameRange(frameRange) ==
    LET whole(s) ==
            \E d \in 2..(Len(s) - 1) :
                /\ s[d] = "-"
                /\ \A k \in 1..(d - 1) : s[k] \in DigitChars
                /\ \A k \in (d + 1)..Len(s) : s[k] \in DigitChars
    IN  \/ whole(frameRange)
        \/ (Len(frameRange) >= 1 /\ Last(frameRange) = "\n" /\ whole(Front(frameRange)))

buildBlenderCmd(layerData, silent) ==
    LET blenderFile == Get(layerData.cmd, "blenderFile", None)
        blenderExecutable == Get(layerData.cmd, "blenderExecutable", BLENDER_RENDER_CMD)
        outputPath == Get(layerData.cmd, "outputPath", None)
        outputFormat == Get(layerData.cmd, "outputFormat", None)
        useCompositing == Get(layerData.cmd, "useCompositing", True)
        frameRange == layerData.layerRange
        a0 == <<blenderExecutable, <<"-", "b">>,
                <<"-", "n", "o", "a", "u", "d", "i", "o">>, blenderFile>>
        a1 == IF Truthy(useCompositing)
              THEN Append(a0, <<"-", "-", "u", "s", "e", "-", "c", "o", "m", "p", "o",
                                "s", "i", "t", "i", "n", "g">>)
              ELSE a0
        a2 == IF Truthy(outputPath) THEN a1 \o <<<<"-", "o">>, outputPath>> ELSE a1
        a3 == IF Truthy(outputFormat) THEN a2 \o <<<<"-", "F">>, outputFormat>> ELSE a2
    IN  IF ~Truthy(blenderFile) /\ ~silent
        THEN Raise("ValueError")
        ELSE IF IsFrameRange(frameRange)
        THEN ReturnList(a3 \o <<<<"-", "s">>, FRAME_START_TOKEN, <<"-", "e">>,
                                FRAME_END_TOKEN, <<"-", "a">>>>)
        ELSE ReturnList(a3 \o <<<<"-", "f">>, FRAME_TOKEN>>)

\* The SHELL branch of buildLayerCommand.
buildShellCmd(layerData, silent) ==
    IF ~silent /\ ~HasKey(layerData.cmd, "commandTextBox")
    THEN Raise("KeyError")
    ELSE LET shell_cmd == Get(layerData.cmd, "commandTextBox", None)
         IN  IF ~Truthy(shell_cmd)
             THEN ReturnList(<<>>)
             ELSE IF shlex_split(shell_cmd).ok
             THEN ReturnList(shlex_split(shell_cmd).tokens)
             ELSE Raise("ValueError")

buildLayerCommand(layerData, silent) ==
    IF layerData.layerType \in FROM_CONFIG_FILE THEN ReturnStr(buildDynamicCmd(layerData))
    ELSE IF layerData.layerType = MAYA THEN buildMayaCmd(layerData, silent)
    ELSE IF layerData.layerType = SHELL THEN buildShellCmd(layerData, silent)
    ELSE IF layerData.layerType = NUKE THEN buildNukeCmd(layerData, silent)
    ELSE IF layerData.layerType = BLENDER THEN buildBlenderCmd(layerData, silent)
    ELSE IF silent
    THEN ReturnStr(<<"E", "r", "r", "o", "r", ":", " ", "u", "n", "r", "e", "c", "o",
                     "g", "n", "i", "z", "e", "d", " ", "l", "a", "y", "e", "r", " ",
                     "t", "y", "p", "e", " ">> \o Format(layerData.layerType))
    ELSE Raise("ValueError")

(***************************************************************************)
(* float(layerData.cores) for a decimal numeral: an optional sign, digits, *)
(* an optional point, digits.  The value is sign * num / den.              *)
(***************************************************************************)
DigitValue(c) ==
    CHOOSE n \in 0..9 : <<"0", "1", "2", "3", "4", "5", "6", "7", "8", "9">>[n + 1] = c

RECURSIVE DigitsValue(_)
DigitsValue(s) ==
    IF s = <<>> THEN 0 ELSE 10 * DigitsValue(Front(s)) + DigitValue(Last(s))

RECURSIVE Pow10(_)
Pow10(n) == IF n = 0 THEN 1 ELSE 10 * Pow10(n - 1)

float(s) ==
    LET signed == Len(s) >= 1 /\ s[1] \in {"-", "+"}
        body == IF signed THEN Tail(s) ELSE s
        points == {k \in 1..Len(body) : body[k] = "."}
        p == IF points = {} THEN Len(body) + 1 ELSE CHOOSE k \in points : TRUE
        whole == SubSeq(body, 1, p - 1)
        frac == SubSeq(body, p + 1, Len(body))
    IN  IF /\ Cardinality(points) <= 1
           /\ \A k \in 1..Len(whole) : whole[k] \in DigitChars
           /\ \A k \in 1..Len(frac) : frac[k] \in DigitChars
           /\ Len(whole) + Len(frac) >= 1
        THEN [ok |-> TRUE, neg |-> (signed /\ s[1] = "-"),
              num |-> DigitsValue(whole \o frac), den |-> Pow10(Len(frac))]
        ELSE [ok |-> FALSE, neg |-> FALSE, num |-> 0, den |-> 1]

(***************************************************************************)
(* Util.py (not among the source files): the service registry.             *)
(***************************************************************************)
ServiceShell == <<"s", "h", "e", "l", "l">>

ServiceArnold == <<"a", "r", "n", "o", "l", "d">>

ServiceUnknown == <<"g", "p", "u">>

\* Util.getServices(): the names of the registered services.
getServices == {ServiceShell, ServiceArnold}

\* Util.getServiceOption(name, 'threadable') of a registered service.
getServiceOption(name) == name = ServiceArnold

(***************************************************************************)
(* buildLayer.  A layer object is held as <<layer>>, no object as NoLayer. *)
(* A dependency names the layer it is on (names are unique within a job).  *)
(***************************************************************************)
NoLayer == <<>>

LayerBuilt(l) == [kind |-> "layer", layer |-> <<l>>, err |-> "-"]

LayerRaise(e) == [kind |-> "raise", layer |-> NoLayer, err |-> e]

\* (mutant) zero and negative core counts are not taken as "unbounded".
ResolveThreadableMutNoZero(layerData) ==
    IF layerData.overrideCores
    THEN LET c == float(layerData.cores)
         IN  ~c.neg /\ c.num >= 2 * c.den
    ELSE IF layerData.services # <<>> /\ layerData.services[1] \in getServices
    THEN getServiceOption(layerData.services[1])
    ELSE FALSE

\* Lines 151-155, given that float() succeeds whenever it is called.
ResolveThreadable(layerData) ==
    IF layerData.overrideCores
    THEN LET c == float(layerData.cores)
         IN  (~c.neg /\ c.num >= 2 * c.den) \/ (c.neg \/ c.num = 0)
    ELSE IF layerData.services # <<>> /\ layerData.services[1] \in getServices
    THEN getServiceOption(layerData.services[1])
    ELSE FALSE

\* (mutant) a predecessor alone makes an edge.
ResolveDependsMutAlways(layerData, last) ==
    IF last # NoLayer
    THEN IF layerData.dependType = <<"L", "a", "y", "e", "r">>
         THEN <<[type |-> "depend_all", on |-> last[1].name]>>
         ELSE <<[type |-> "depend_on", on |-> last[1].name]>>
    ELSE <<>>

\* (mutant) the two kinds of dependency are exchanged.
ResolveDependsMutSwap(layerData, last) ==
    IF Truthy(layerData.dependType) /\ last # NoLayer
    THEN IF layerData.dependType = <<"L", "a", "y", "e", "r">>
         THEN <<[type |-> "depend_on", on |-> last[1].name]>>
         ELSE <<[type |-> "depend_all", on |-> last[1].name]>>
    ELSE <<>>

\* Lines 167-171.
ResolveDepends(layerData, last) ==
    IF Truthy(layerData.dependType) /\ last # NoLayer
    THEN IF layerData.dependType = <<"L", "a", "y", "e", "r">>
         THEN <<[type |-> "depend_all", on |-> last[1].name]>>
         ELSE <<[type |-> "depend_on", on |-> last[1].name]>>
    ELSE <<>>

\* (mutant) cores is passed through whether or not overrideCores is set.
buildLayerMutCoresAlways(layerData, cmd, last) ==
    IF layerData.overrideCores /\ ~float(layerData.cores).ok
    THEN LayerRaise("ValueError")
    ELSE IF cmd.kind = "str" /\ ~shlex_split(cmd.str).ok
    THEN LayerRaise("ValueError")
    ELSE LayerBuilt(
        [name |-> layerData.name,
         command |-> IF cmd.kind = "list" THEN cmd.list ELSE shlex_split(cmd.str).tokens,
         chunk |-> layerData.chunk,
         cores |-> layerData.cores,
         range |-> Format(layerData.layerRange),
         threadable |-> ResolveThreadable(layerData),
         service |-> IF layerData.services # <<>> THEN layerData.services[1] ELSE None,
         limits |-> layerData.limits,
         depends |-> ResolveDepends(layerData, last)])

buildLayer(layerData, cmd, last) ==
    IF layerData.overrideCores /\ ~float(layerData.cores).ok
    THEN LayerRaise("ValueError")
    ELSE IF cmd.kind = "str" /\ ~shlex_split(cmd.str).ok
    THEN LayerRaise("ValueError")
    ELSE LayerBuilt(
        [name |-> layerData.name,
         command |-> IF cmd.kind = "list" THEN cmd.list ELSE shlex_split(cmd.str).tokens,
         chunk |-> layerData.chunk,
         cores |-> IF layerData.overrideCores THEN layerData.cores ELSE None,
         range |-> Format(layerData.layerRange),
         threadable |-> ResolveThreadable(layerData),
         service |-> IF layerData.services # <<>> THEN layerData.services[1] ELSE None,
         limits |-> layerData.limits,
         depends |-> ResolveDepends(layerData, last)])

(***************************************************************************)
(* The jobs submitJob is given.                                            *)
(***************************************************************************)
LayerData(layerType, cmd, layerRange, overrideCores, cores, services, dependType) ==
    [name |-> <<>>, layerType |-> layerType, cmd |-> cmd, layerRange |-> layerRange,
     chunk |-> 1, cores |-> cores, overrideCores |-> overrideCores,
     services |-> services, limits |-> <<>>, dependType |-> dependType]

DependTypes == {None, <<>>, <<"L", "a", "y", "e", "r">>, <<"F", "r", "a", "m", "e">>}

\* A shell command, which builds.
ShellCommand ==
    <<SHELL, <<<< <<"commandTextBox">>, <<"l", "s", " ", "\"", "a", " ", "b", "\"">> >>>>,
      <<"1">>, <<ServiceShell>> >>

\* A dynamic command, which builds; and three layers whose building raises:
\* a Maya layer without its file, a layer of no known type, and a dynamic
\* command that shlex cannot tokenize.
OtherCommands ==
    {<<ARNOLD, <<<< <<<<"-", "i">>, TRUE, TRUE>>, <<"a", " ", "b">> >>>>,
       <<"1", "-", "9">>, <<ServiceArnold>> >>,
     <<MAYA, <<<< <<"camera">>, <<"p">> >>>>, <<"1", "-", "9">>, <<>> >>,
     <<<<"K", "a", "t">>, <<>>, <<"1">>, <<>> >>,
     <<ARNOLD, <<<< <<<<"-", "i">>, FALSE, TRUE>>, <<"a", "'", "b">> >>>>,
       <<"1">>, <<ServiceUnknown>> >>}

JobLayers ==
    {LayerData(ShellCommand[1], ShellCommand[2], ShellCommand[3], FALSE, <<"0">>,
               ShellCommand[4], d) : d \in DependTypes}
    \cup {LayerData(c[1], c[2], c[3], FALSE, <<"0">>, c[4], <<"L", "a", "y", "e", "r">>) :
        c \in OtherCommands}

\* The name of the layer at position k: k characters.
LayerName(k) == [j \in 1..k |-> "n"]

Jobs ==
    LET named(f) == [k \in DOMAIN f |-> [f[k] EXCEPT !.name = LayerName(k)]]
        lists == UNION {[1..n -> JobLayers] : n \in 0..MaxLayers}
        job(f) == [name |-> <<"j">>, shot |-> <<"s">>, show |-> <<"w">>,
                   username |-> <<"u">>, layers |-> named(f)]
    IN  {job(f) : f \in lists}
        \cup {[facility |-> <<"c">>] @@ job(f) : f \in lists}

(***************************************************************************)
(* submitJob, one action per statement.                                    *)
(***************************************************************************)
NoCommand == ReturnList(<<>>)

NoResult == [kind |-> "none", val |-> "-"]

\* Line 197-199: the Outline is created and lastLayer is None.
CreateOutline ==
    /\ pc = "start"
    /\ ol' = [layers |-> <<>>, facility |-> None]
    /\ lastLayer' = NoLayer
    /\ i' = 1
    /\ pc' = "buildLayerCommand"
    /\ UNCHANGED <<jobData, command, layer, launchCalls, launchOut, result, arg, out>>

\* (mutant) a builder's error is caught and the layer gets an empty command.
BuildCommandMutCatch ==
    /\ pc = "buildLayerCommand"
    /\ i <= Len(jobData.layers)
    /\ LET c == buildLayerCommand(jobData.layers[i], FALSE)
       IN  command' = IF c.kind = "raise" THEN NoCommand ELSE c
    /\ pc' = "buildLayer"
    /\ UNCHANGED <<jobData, i, layer, ol, lastLayer, launchCalls, launchOut, result,
                   arg, out>>

\* Line 201, for the layer the loop is at.
BuildCommand ==
    /\ pc = "buildLayerCommand"
    /\ i <= Len(jobData.layers)
    /\ LET c == buildLayerCommand(jobData.layers[i], FALSE)
       IN  IF c.kind = "raise"
           THEN /\ pc' = "raised"
                /\ result' = [kind |-> "raise", val |-> c.err]
                /\ UNCHANGED command
           ELSE /\ pc' = "buildLayer"
                /\ command' = c
                /\ UNCHANGED result
    /\ UNCHANGED <<jobData, i, layer, ol, lastLayer, launchCalls, launchOut, arg, out>>

\* Line 202.
BuildLayer ==
    /\ pc = "buildLayer"
    /\ LET b == buildLayer(jobData.layers[i], command, lastLayer)
       IN  IF b.kind = "raise"
           THEN /\ pc' = "raised"
                /\ result' = [kind |-> "raise", val |-> b.err]
                /\ UNCHANGED layer
           ELSE /\ pc' = "add_layer"
                /\ layer' = b.layer
                /\ UNCHANGED result
    /\ UNCHANGED <<jobData, i, command, ol, lastLayer, launchCalls, launchOut, arg, out>>

\* (mutant) lastLayer is set once, to the first layer.
AddLayerMutKeepFirst ==
    /\ pc = "add_layer"
    /\ ol' = [ol EXCEPT !.layers = Append(@, layer[1])]
    /\ lastLayer' = IF lastLayer = NoLayer THEN layer ELSE lastLayer
    /\ i' = i + 1
    /\ pc' = "buildLayerCommand"
    /\ UNCHANGED <<jobData, command, layer, launchCalls, launchOut, result, arg, out>>

\* (mutant) the outline takes the new layer at its front.
AddLayerMutPrepend ==
    /\ pc = "add_layer"
    /\ ol' = [ol EXCEPT !.layers = <<layer[1]>> \o @]
    /\ lastLayer' = layer
    /\ i' = i + 1
    /\ pc' = "buildLayerCommand"
    /\ UNCHANGED <<jobData, command, layer, launchCalls, launchOut, result, arg, out>>

\* Lines 203-204, and the loop's step.
AddLayer ==
    /\ pc = "add_layer"
    /\ ol' = [ol EXCEPT !.layers = Append(@, layer[1])]
    /\ lastLayer' = layer
    /\ i' = i + 1
    /\ pc' = "buildLayerCommand"
    /\ UNCHANGED <<jobData, command, layer, launchCalls, launchOut, result, arg, out>>

\* Lines 206-207, once the loop has consumed every layer.
SetFacility ==
    /\ pc = "buildLayerCommand"
    /\ i > Len(jobData.layers)
    /\ ol' = IF "facility" \in DOMAIN jobData
             THEN [ol EXCEPT !.facility = jobData.facility]
             ELSE ol
    /\ pc' = "launch"
    /\ UNCHANGED <<jobData, i, command, layer, lastLayer, launchCalls, launchOut, result,
                   arg, out>>

\* (mutant) a launch that raises is tried once more.
LaunchMutRetry(outcome) ==
    /\ pc = "launch"
    /\ launchCalls' = launchCalls + 1
    /\ launchOut' = outcome
    /\ result' = outcome
    /\ pc' = IF outcome.kind = "return" THEN "returned"
             ELSE IF launchCalls = 0 THEN "launch" ELSE "raised"
    /\ UNCHANGED <<jobData, i, command, layer, ol, lastLayer, arg, out>>

\* Line 209: outline.cuerun.launch returns its handle, or raises.
Launch(outcome) ==
    /\ pc = "launch"
    /\ launchCalls' = launchCalls + 1
    /\ launchOut' = outcome
    /\ result' = outcome
    /\ pc' = IF outcome.kind = "raise" THEN "raised" ELSE "returned"
    /\ UNCHANGED <<jobData, i, command, layer, ol, lastLayer, arg, out>>

LaunchReturns == Launch([kind |-> "return", val |-> "handle"])

LaunchRaises == Launch([kind |-> "raise", val |-> "SubmissionError"])

Init ==
    /\ jobData \in Jobs
    /\ pc = "start"
    /\ i = 0
    /\ command = NoCommand
    /\ layer = NoLayer
    /\ ol = [layers |-> <<>>, facility |-> None]
    /\ lastLayer = NoLayer
    /\ launchCalls = 0
    /\ launchOut = NoResult
    /\ result = NoResult
    /\ arg = <<>>
    /\ out = <<>>

Next ==
    \/ CreateOutline
    \/ BuildCommand
    \/ BuildLayer
    \/ AddLayer
    \/ SetFacility
    \/ LaunchReturns
    \/ LaunchRaises

Spec == Init /\ [][Next]_vars

(***************************************************************************)
(* buildLayerCommand called on its own, by submitJob (silent=False) or by  *)
(* the command preview (silent=True), over a range of layers.              *)
(***************************************************************************)
\* The most items a dynamic layer's command mapping holds.
MaxItems == 2

\* No entry for the key, or one entry with one of the values.
Optional(name, values) == {<<>>} \cup {<< <<<<name>>, v>> >> : v \in values}

FileValues == {None, <<>>, <<"/", "a", " ", "b">>}

MayaCmds ==
    {f \o c : f \in Optional("mayaFile", FileValues),
              c \in Optional("camera", {<<>>, <<"p">>})}

NukeCmds ==
    {w \o f : w \in Optional("writeNodes", {<<>>, <<"W">>}),
              f \in Optional("nukeFile", FileValues)}

BlenderCmds ==
    {f \o e \o o \o t \o u :
        f \in Optional("blenderFile", FileValues),
        e \in Optional("blenderExecutable", {<<"/", "b">>}),
        o \in Optional("outputPath", {<<"/", "o", " ", "#">>}),
        t \in Optional("outputFormat", {<<"P", "N", "G">>}),
        u \in Optional("useCompositing", {True, False})}

ShellCmds ==
    Optional("commandTextBox",
             {None, <<>>,
              <<"\"", "m", " ", "a", "\"", " ", "-", "f", " ", "\"", "v", " ", "w", "\"">>,
              <<"l", "s", " ", "\"", "a">>,
              <<"l", "s", " ", "a", "\\", " ", "b", " ", "'", "c", " ", "d", "'">>})

DynamicFlags ==
    {<<"-", "f">>, <<"-", "-", "b", "g", "~">>, <<"i", "n">>, <<"-", "q", "~", "\n">>}

DynamicValues == {None, <<>>, <<"a", " ", "b">>}

DynamicEntries ==
    {<< <<flag, isPath, isMandatory>>, value >> :
        flag \in DynamicFlags, isPath \in BOOLEAN, isMandatory \in BOOLEAN,
        value \in DynamicValues}

\* Mappings of at most MaxItems items, their keys distinct.
DynamicCmds ==
    UNION {{f \in [1..n -> DynamicEntries] :
               \A a, b \in 1..n : a # b => f[a][1] # f[b][1]} : n \in 0..MaxItems}

LayerRanges ==
    {<<"1", "-", "1", "0", "0">>, <<"5", "0">>, <<"1", "-">>, <<"7", "-", "9", "\n">>}

CommandLayers ==
    {LayerData(MAYA, c, <<"1">>, FALSE, <<"0">>, <<>>, None) : c \in MayaCmds}
    \cup {LayerData(NUKE, c, <<"1">>, FALSE, <<"0">>, <<>>, None) : c \in NukeCmds}
    \cup {LayerData(BLENDER, c, r, FALSE, <<"0">>, <<>>, None) :
            c \in BlenderCmds, r \in LayerRanges}
    \cup {LayerData(SHELL, c, <<"1">>, FALSE, <<"0">>, <<>>, None) : c \in ShellCmds}
    \cup {LayerData(ARNOLD, c, <<"1">>, FALSE, <<"0">>, <<>>, None) : c \in DynamicCmds}
    \cup {LayerData(<<"K", "a", "t">>, <<>>, <<"1">>, FALSE, <<"0">>, <<>>, None)}

InitCalls ==
    /\ jobData = [name |-> <<"j">>, shot |-> <<"s">>, show |-> <<"w">>,
                  username |-> <<"u">>, layers |-> <<>>]
    /\ pc = "call"
    /\ i = 0
    /\ command = NoCommand
    /\ layer = NoLayer
    /\ ol = [layers |-> <<>>, facility |-> None]
    /\ lastLayer = NoLayer
    /\ launchCalls = 0
    /\ launchOut = NoResult
    /\ result = NoResult
    /\ arg = <<>>
    /\ out = <<>>

CallBuildLayerCommand ==
    /\ pc = "call"
    /\ \E layerData \in CommandLayers, silent \in BOOLEAN :
        /\ arg' = [layerData |-> layerData, silent |-> silent]
        /\ out' = buildLayerCommand(layerData, silent)
    /\ pc' = "called"
    /\ UNCHANGED <<jobData, i, command, layer, ol, lastLayer, launchCalls, launchOut,
                   result>>

NextCommand == CallBuildLayerCommand

SpecCommand == InitCalls /\ [][NextCommand]_vars

(***************************************************************************)
(* buildLayer called on its own, over a range of layers, commands and      *)
(* predecessors.                                                           *)
(***************************************************************************)
CoresValues ==
    {<<"0">>, <<"1">>, <<"2">>, <<"8">>, <<"-", "1">>, <<"1", ".", "5">>,
     <<"0", ".", "5">>, <<"2", ".", "0">>, <<"x">>}

ServicesValues ==
    {<<>>, <<ServiceShell>>, <<ServiceArnold>>, <<ServiceUnknown>>,
     <<ServiceUnknown, ServiceArnold>>, <<ServiceShell, ServiceArnold>>}

AssemblyLayers ==
    {[LayerData(SHELL, <<>>, <<"1">>, overrideCores, cores, services, dependType)
        EXCEPT !.name = LayerName(2)] :
        overrideCores \in BOOLEAN, cores \in CoresValues, services \in ServicesValues,
        dependType \in DependTypes}

AssemblyCommands ==
    {ReturnList(<<<<"l", "s">>, <<"a", " ", "b">>>>),
     ReturnStr(<<"k", "i", "c", "k", " ", "-", "i", " ", "\"", "a", " ", "b", "\"">>),
     ReturnStr(<<"k", "i", "c", "k", " ", "\"", "a">>)}

\* A layer built earlier, to depend on.
PreviousLayer ==
    [name |-> LayerName(1), command |-> <<<<"l", "s">>>>, chunk |-> 1, cores |-> None,
     range |-> <<"1">>, threadable |-> FALSE, service |-> None, limits |-> <<>>,
     depends |-> <<>>]

CallBuildLayer ==
    /\ pc = "call"
    /\ \E layerData \in AssemblyLayers, cmd \in AssemblyCommands,
          last \in {NoLayer, <<PreviousLayer>>} :
        /\ arg' = [layerData |-> layerData, command |-> cmd, lastLayer |-> last]
        /\ out' = buildLayer(layerData, cmd, last)
    /\ pc' = "called"
    /\ UNCHANGED <<jobData, i, command, layer, ol, lastLayer, launchCalls, launchOut,
                   result>>

NextLayer == CallBuildLayer

SpecLayer == InitCalls /\ [][NextLayer]_vars

(***************************************************************************)
(* formatValue called on its own, over a range of flags and values.        *)
(***************************************************************************)
FormatValues ==
    {None, <<>>, <<" ">>, <<"a", " ", "b">>, <<"/", "p">>, <<"a", "\"", "b">>,
     <<"\"", "q", "\"">>}

CallFormatValue ==
    /\ pc = "call"
    /\ \E flag \in DynamicFlags, value \in FormatValues, isPath \in BOOLEAN,
          isMandatory \in BOOLEAN :
        /\ arg' = [flag |-> flag, value |-> value, isPath |-> isPath,
                   isMandatory |-> isMandatory]
        /\ out' = formatValue(flag, value, isPath, isMandatory)
    /\ pc' = "called"
    /\ UNCHANGED <<jobData, i, command, layer, ol, lastLayer, launchCalls, launchOut,
                   result>>

NextFormat == CallFormatValue

SpecFormat == InitCalls /\ [][NextFormat]_vars

(***************************************************************************)
(* submitJob given one layer: a dynamic layer, whose command string        *)
(* buildLayer tokenizes, or a Shell layer, whose command is a list.        *)
(***************************************************************************)
RoundTripFlags == {<<"-", "f">>, <<"-", "f", "\n">>, <<"i", "n">>}

RoundTripValues ==
    {<<"a", " ", "b">>, <<"a", "\t", "b", " ">>, <<"i", "t", "'", "s", " ", "a">>,
     <<"a", "\"", "b">>}

RoundTripEntries ==
    {<< <<flag, isPath, FALSE>>, value >> :
        flag \in RoundTripFlags, isPath \in BOOLEAN, value \in RoundTripValues}

RoundTripCmds ==
    UNION {{f \in [1..n -> RoundTripEntries] :
               \A a, b \in 1..n : a # b => f[a][1] # f[b][1]} : n \in 0..MaxItems}

RoundTripLayers ==
    {[LayerData(ARNOLD, c, <<"1">>, FALSE, <<"0">>, <<ServiceArnold>>, None)
        EXCEPT !.name = LayerName(1)] : c \in RoundTripCmds}
    \cup {[LayerData(ShellCommand[1], ShellCommand[2], ShellCommand[3], FALSE, <<"0">>,
                     ShellCommand[4], None) EXCEPT !.name = LayerName(1)]}

InitRoundTrip ==
    /\ jobData \in {[name |-> <<"j">>, shot |-> <<"s">>, show |-> <<"w">>,
                      username |-> <<"u">>, layers |-> <<l>>] : l \in RoundTripLayers}
    /\ pc = "start"
    /\ i = 0
    /\ command = NoCommand
    /\ layer = NoLayer
    /\ ol = [layers |-> <<>>, facility |-> None]
    /\ lastLayer = NoLayer
    /\ launchCalls = 0
    /\ launchOut = NoResult
    /\ result = NoResult
    /\ arg = <<>>
    /\ out = <<>>

SpecRoundTrip == InitRoundTrip /\ [][Next]_vars

(***************************************************************************)
(* Properties of submitJob (specification Spec).                           *)
(***************************************************************************)
\* The layers built so far in declared order: those added to the outline,
\* and the one buildLayer has returned that add_layer has yet to take.
BuiltLayers == ol.layers \o (IF pc = "add_layer" THEN layer ELSE <<>>)

\* Building the layer raises, in buildLayerCommand or in buildLayer.
BuildRaises(layerData) ==
    \/ buildLayerCommand(layerData, FALSE).kind = "raise"
    \/ buildLayer(layerData, buildLayerCommand(layerData, FALSE), NoLayer).kind = "raise"

\* C1: in the assembled job every layer has at most one dependency edge, and
\* an edge of the layer at position k exists only for k >= 2 and is on the
\* layer built at position k-1: never on a later layer, on a layer two or more
\* positions earlier, or on the layer itself.
C1_EdgesPointToPreviousLayer ==
    \A k \in 1..Len(BuiltLayers) :
        LET deps == BuiltLayers[k].depends
        IN  /\ Len(deps) <= 1
            /\ \A e \in 1..Len(deps) :
                /\ k >= 2
                /\ deps[e].on = BuiltLayers[k - 1].name
                /\ \A m \in 1..Len(jobData.layers) :
                       deps[e].on = jobData.layers[m].name => m = k - 1

\* Three layers are assembled, the second and the third each with an edge.
C1_Witness ==
    /\ Len(ol.layers) = 3
    /\ ol.layers[2].depends # <<>>
    /\ ol.layers[3].depends # <<>>
    /\ ol.layers[3].depends[1].on = jobData.layers[2].name

\* C2: when the building of any layer of the job raises, at whatever position,
\* submitJob ends by raising that builder's error at the first such layer and
\* outline.cuerun.launch is never called.
C2_NoLaunchWhenALayerRaises ==
    (\E k \in 1..Len(jobData.layers) : BuildRaises(jobData.layers[k])) =>
        /\ launchCalls = 0
        /\ launchOut = NoResult
        /\ pc \notin {"launch", "returned"}
        /\ pc = "raised" =>
            /\ result.kind = "raise"
            /\ result.val \in {"ValueError", "KeyError"}
            /\ BuildRaises(jobData.layers[i])
            /\ \A k \in 1..(i - 1) : ~BuildRaises(jobData.layers[k])

\* The third layer's building raised after two layers were added.
C2_Witness ==
    /\ pc = "raised"
    /\ i = 3
    /\ Len(ol.layers) = 2
    /\ result = [kind |-> "raise", val |-> "ValueError"]
    /\ launchCalls = 0

\* C3: launch is called at most once, and only after every layer has been
\* built and added and the facility applied when the job has one; a job whose
\* layers all build ends with exactly one call, whether the call returns or
\* raises, and submitJob returns what the call returned or raises what it
\* raised.
C3_OneLaunchAfterAssembly ==
    /\ launchCalls <= 1
    /\ launchCalls = 1 =>
        /\ Len(ol.layers) = Len(jobData.layers)
        /\ "facility" \in DOMAIN jobData => ol.facility = jobData.facility
        /\ pc \in {"returned", "raised"}
        /\ result = launchOut
        /\ pc = "returned" <=> launchOut.kind = "return"
    /\ (/\ \A k \in 1..Len(jobData.layers) : ~BuildRaises(jobData.layers[k])
        /\ pc \in {"returned", "raised"}) => launchCalls = 1

\* A job of three layers with a facility was launched once and the call raised.
C3_Witness ==
    /\ pc = "raised"
    /\ launchCalls = 1
    /\ result = [kind |-> "raise", val |-> "SubmissionError"]
    /\ Len(ol.layers) = 3
    /\ ol.facility # None

\* C7: a built layer has a dependency edge if and only if its dependType is
\* set (non-empty) and a layer was built before it.
C7_EdgeIffDependTypeAndPredecessor ==
    \A k \in 1..Len(BuiltLayers) :
        BuiltLayers[k].depends # <<>>
            <=> (Truthy(jobData.layers[k].dependType) /\ k >= 2)

\* Three layers: the first has a dependType and no edge, the second has a
\* dependType and an edge, the third has neither.
C7_Witness ==
    /\ Len(ol.layers) = 3
    /\ Truthy(jobData.layers[1].dependType) /\ ol.layers[1].depends = <<>>
    /\ Truthy(jobData.layers[2].dependType) /\ ol.layers[2].depends # <<>>
    /\ ~Truthy(jobData.layers[3].dependType) /\ ol.layers[3].depends = <<>>

\* C14: the layers are taken one at a time in declared order.  While layer i
\* is worked on, the outline holds the layers 1..i-1 and no other: the command
\* in hand is layer i's, the layer in hand is built from it and is added
\* before layer i+1 is begun.  Every layer of the outline is the one built
\* from the LayerData at its position, under its name, and after a run that
\* returns there is one for each LayerData.
C14_LayersInDeclaredOrder ==
    /\ pc \in {"buildLayerCommand", "buildLayer", "add_layer"} => Len(ol.layers) = i - 1
    /\ pc = "buildLayer" => command = buildLayerCommand(jobData.layers[i], FALSE)
    /\ pc = "add_layer" =>
           layer = buildLayer(jobData.layers[i], command, lastLayer).layer
    /\ Len(ol.layers) <= Len(jobData.layers)
    /\ \A k \in 1..Len(ol.layers) :
        /\ ol.layers[k].name = jobData.layers[k].name
        /\ <<ol.layers[k]>> =
               buildLayer(jobData.layers[k], buildLayerCommand(jobData.layers[k], FALSE),
                          IF k = 1 THEN NoLayer ELSE <<ol.layers[k - 1]>>).layer
    /\ pc = "returned" => Len(ol.layers) = Len(jobData.layers)

\* A job of three layers was submitted: the outline holds the three, in order.
C14_Witness ==
    /\ pc = "returned"
    /\ Len(jobData.layers) = 3
    /\ Len(ol.layers) = 3
    /\ \A k \in 1..3 : ol.layers[k].name = LayerName(k)
    /\ jobData.layers[1].layerType # jobData.layers[2].layerType

(***************************************************************************)
(* Properties of buildLayer (specification SpecLayer).                     *)
(***************************************************************************)
\* C4: the threadable flag of the built layer is decided by overrideCores,
\* cores, services and the registry alone: with overrideCores, it is true
\* exactly when cores >= 2 or cores <= 0 (false for 1, true for 0 and for 8);
\* otherwise it is the threadable option of the first service when that is
\* registered, and false when there is no service or the first is not
\* registered, in which case nothing is raised.
C4_ThreadableResolution ==
    pc = "called" =>
        LET ld == arg.layerData
            c == float(ld.cores)
        IN  /\ out.kind = "layer" =>
                /\ out.layer[1].threadable =
                     IF ld.overrideCores
                     THEN (~c.neg /\ c.num >= 2 * c.den) \/ c.neg \/ c.num = 0
                     ELSE IF ld.services # <<>> /\ ld.services[1] \in getServices
                     THEN getServiceOption(ld.services[1])
                     ELSE FALSE
                /\ ld.overrideCores /\ ld.cores = <<"1">> => ~out.layer[1].threadable
                /\ ld.overrideCores /\ ld.cores \in {<<"0">>, <<"8">>}
                       => out.layer[1].threadable
            /\ ~ld.overrideCores /\ arg.command.kind = "list" => out.kind = "layer"

\* cores=0 is forced on a layer whose service is registered as not threadable.
C4_Witness ==
    /\ pc = "called"
    /\ arg.layerData.overrideCores
    /\ arg.layerData.cores = <<"0">>
    /\ arg.layerData.services = <<ServiceShell>>
    /\ out.kind = "layer"
    /\ out.layer[1].threadable

\* C8: an edge that buildLayer creates is the only one, of kind depend_all
\* exactly when dependType is "Layer" and of kind depend_on for every other
\* set dependType.
C8_DependKindByDependType ==
    (pc = "called" /\ out.kind = "layer" /\ out.layer[1].depends # <<>>) =>
        LET deps == out.layer[1].depends
            isLayer == arg.layerData.dependType = <<"L", "a", "y", "e", "r">>
        IN  /\ Len(deps) = 1
            /\ deps[1].type \in {"depend_all", "depend_on"}
            /\ deps[1].type = "depend_all" <=> isLayer
            /\ deps[1].type = "depend_on" <=> ~isLayer

\* dependType "Frame" with a predecessor gives one depend_on edge.
C8_Witness ==
    /\ pc = "called"
    /\ arg.layerData.dependType = <<"F", "r", "a", "m", "e">>
    /\ out.kind = "layer"
    /\ out.layer[1].depends = <<[type |-> "depend_on", on |-> PreviousLayer.name]>>

\* C15: the cores of the built layer is the LayerData's cores, as given, when
\* overrideCores is set, and None when it is not, whatever cores and services
\* the LayerData holds; without overrideCores the cores field is not read, so
\* a value that is no number raises nothing.
C15_CoresOnlyWhenOverridden ==
    pc = "called" =>
        /\ out.kind = "layer" =>
               out.layer[1].cores = IF arg.layerData.overrideCores
                                    THEN arg.layerData.cores
                                    ELSE None
        /\ (~arg.layerData.overrideCores /\ out.kind = "raise") =>
               (arg.command.kind = "str" /\ ~shlex_split(arg.command.str).ok)

\* cores "8" and a threadable service, overrideCores not set: cores is None.
C15_Witness ==
    /\ pc = "called"
    /\ ~arg.layerData.overrideCores
    /\ arg.layerData.cores = <<"8">>
    /\ arg.layerData.services = <<ServiceArnold>>
    /\ out.kind = "layer"
    /\ out.layer[1].cores = None
    /\ out.layer[1].threadable

(***************************************************************************)
(* Properties of buildLayerCommand (specification SpecCommand).            *)
(***************************************************************************)
\* The file a named engine requires.
RequiredFile(layerType) ==
    IF layerType = MAYA THEN "mayaFile"
    ELSE IF layerType = NUKE THEN "nukeFile"
    ELSE "blenderFile"

\* A Maya, Nuke or Blender layer whose required file is absent or empty.
MissingFileCall ==
    /\ pc = "called"
    /\ arg.layerData.layerType \in {MAYA, NUKE, BLENDER}
    /\ ~Truthy(Get(arg.layerData.cmd, RequiredFile(arg.layerData.layerType), None))

\* C5 (as claimed): with the required file absent or empty, the builder raises
\* in normal mode and in preview mode returns a diagnostic string.
C5_PreviewReturnsString ==
    MissingFileCall =>
        IF arg.silent THEN out.kind = "str" ELSE out = Raise("ValueError")

\* C5 (amended): with the required file absent or empty, the builder raises a
\* ValueError in normal mode; in preview mode it does not raise and returns
\* the command as an argument list, not as a string.
C5_PreviewReturnsList ==
    MissingFileCall =>
        IF arg.silent THEN out.kind = "list" ELSE out = Raise("ValueError")

\* A Maya layer with no mayaFile, previewed: a list comes back.
C5_Witness ==
    /\ MissingFileCall
    /\ arg.layerData.layerType = MAYA
    /\ ~HasKey(arg.layerData.cmd, "mayaFile")
    /\ arg.silent
    /\ out.kind = "list"

\* C6: whenever a named-engine builder (Maya, Nuke, Blender, Shell) returns,
\* in normal or in preview mode, it returns a list and every element of the
\* list is a str.
C6_ListOfStrings ==
    (/\ pc = "called"
     /\ arg.layerData.layerType \in {MAYA, NUKE, BLENDER, SHELL}
     /\ out.kind # "raise") =>
        /\ out.kind = "list"
        /\ \A k \in 1..Len(out.list) : out.list[k] \notin {None, True, False}

\* The text put in place of a mandatory value that is missing.
Sentinel(flag) ==
    <<"!", "!", "m", "i", "s", "s", "i", "n", "g", " ", "v", "a", "l", "u", "e", " ",
      "f", "o", "r", " ">> \o flag \o <<"!", "!">>

\* The command built from the items before item k, and what the items after
\* item k add.
BeforeItem(k) ==
    buildDynamicCmd([arg.layerData EXCEPT !.cmd = SubSeq(arg.layerData.cmd, 1, k - 1)])

AfterItem(k) ==
    DynamicItems(SubSeq(arg.layerData.cmd, k + 1, Len(arg.layerData.cmd)))

\* C9: in a dynamic layer, a flag that is not solo, is mandatory and has the
\* value "" or None raises nothing: formatValue gives the sentinel, which the
\* command carries at the item's place, after the flag when the flag is a
\* recognized flag and alone otherwise; a flag that is not mandatory and has
\* an empty value adds nothing.
C9_MissingMandatoryIsSentinel ==
    (pc = "called" /\ arg.layerData.layerType \in FROM_CONFIG_FILE) =>
        \A k \in 1..Len(arg.layerData.cmd) :
            LET flag == arg.layerData.cmd[k][1][1]
                isPath == arg.layerData.cmd[k][1][2]
                isMandatory == arg.layerData.cmd[k][1][3]
                value == arg.layerData.cmd[k][2]
            IN  (~isSoloFlag(flag) /\ value \in {<<>>, None}) =>
                    /\ out.kind = "str"
                    /\ isMandatory =>
                        /\ formatValue(flag, value, isPath, isMandatory) = Sentinel(flag)
                        /\ out.str = BeforeItem(k)
                                \o (IF isFlag(flag) THEN <<" ">> \o flag ELSE <<>>)
                                \o <<" ">> \o Sentinel(flag) \o AfterItem(k)
                    /\ ~isMandatory => out.str = BeforeItem(k) \o AfterItem(k)

\* The one item -f is a mandatory path with no value.
C9_Witness ==
    /\ pc = "called"
    /\ arg.layerData.cmd = << << <<<<"-", "f">>, TRUE, TRUE>>, None >> >>
    /\ out.kind = "str"
    /\ out.str = <<"k", "i", "c", "k", " ", "-", "f", " ", "!", "!", "m", "i", "s", "s",
                   "i", "n", "g", " ", "v", "a", "l", "u", "e", " ", "f", "o", "r", " ",
                   "-", "f", "!", "!">>

\* C10: in a dynamic layer, an item whose flag is dashes, word characters and
\* a final tilde adds a space and the flag without its tilde, and nothing else,
\* whatever its value, isPath and isMandatory are.
C10_SoloFlagWithoutValue ==
    (pc = "called" /\ arg.layerData.layerType \in FROM_CONFIG_FILE) =>
        \A k \in 1..Len(arg.layerData.cmd) :
            LET flag == arg.layerData.cmd[k][1][1]
            IN  (isSoloFlag(flag) /\ Last(flag) = "~") =>
                    /\ out.kind = "str"
                    /\ out.str = BeforeItem(k) \o <<" ">>
                                    \o SubSeq(flag, 1, Len(flag) - 1) \o AfterItem(k)
                    /\ \A j \in 1..(Len(flag) - 1) : flag[j] # "~"

\* --bg~ is given as a mandatory path with a value: the command is `kick --bg`.
C10_Witness ==
    /\ pc = "called"
    /\ arg.layerData.cmd = << << <<<<"-", "-", "b", "g", "~">>, TRUE, TRUE>>,
                                 <<"a", " ", "b">> >> >>
    /\ out = ReturnStr(<<"k", "i", "c", "k", " ", "-", "-", "b", "g">>)

\* The whole of s is digits, a dash, digits: the form "N-M".
DigitsDashDigits(s) ==
    \E d \in 2..(Len(s) - 1) :
        /\ s[d] = "-"
        /\ \A k \in 1..(d - 1) : s[k] \in DigitChars
        /\ \A k \in (d + 1)..Len(s) : s[k] \in DigitChars

\* The last n elements of a list.
Suffix(l, n) == SubSeq(l, Len(l) - n + 1, Len(l))

\* C12: the Blender builder ends its list with -s <start> -e <end> -a and has
\* no -f when layerRange has the form "N-M", and ends it with -f <frame> and
\* has no -a for any other layerRange; never both, never neither.
C12_FrameFlagsByShape ==
    (pc = "called" /\ arg.layerData.layerType = BLENDER /\ out.kind = "list") =>
        LET has(flag) == \E k \in 1..Len(out.list) : out.list[k] = flag
        IN  IF DigitsDashDigits(arg.layerData.layerRange)
            THEN /\ Len(out.list) >= 5
                 /\ Suffix(out.list, 5) = <<<<"-", "s">>, FRAME_START_TOKEN, <<"-", "e">>,
                                            FRAME_END_TOKEN, <<"-", "a">>>>
                 /\ ~has(<<"-", "f">>)
            ELSE /\ Len(out.list) >= 2
                 /\ Suffix(out.list, 2) = <<<<"-", "f">>, FRAME_TOKEN>>
                 /\ ~has(<<"-", "a">>)

\* C13: for a Shell layer whose commandTextBox is absent or empty,
\* buildLayerCommand returns the empty list in preview mode and raises in
\* normal mode.
C13_MissingShellCommand ==
    (/\ pc = "called"
     /\ arg.layerData.layerType = SHELL
     /\ ~Truthy(Get(arg.layerData.cmd, "commandTextBox", None))) =>
        IF arg.silent THEN out = ReturnList(<<>>) ELSE out.kind = "raise"

(***************************************************************************)
(* Properties of formatValue (specification SpecFormat).                   *)
(***************************************************************************)
\* C11: for a non-empty value, formatValue with isPath returns the value
\* between one pair of double quotes, whether or not it is mandatory, and
\* without isPath returns the value as it is.
C11_PathQuotedOnce ==
    (pc = "called" /\ arg.value \notin {None, <<>>}) =>
        IF arg.isPath
        THEN /\ Len(out) = Len(arg.value) + 2
             /\ out[1] = "\""
             /\ out[Len(out)] = "\""
             /\ SubSeq(out, 2, Len(out) - 1) = arg.value
        ELSE out = arg.value

\* A mandatory path `a b` comes back as `"a b"`.
C11_Witness ==
    /\ pc = "called"
    /\ arg.value = <<"a", " ", "b">>
    /\ arg.isPath
    /\ arg.isMandatory
    /\ out = <<"\"", "a", " ", "b", "\"">>

(***************************************************************************)
(* Properties of the command's way from buildLayerCommand into the layer   *)
(* (specification SpecRoundTrip).                                          *)
(***************************************************************************)
\* The one layer of the job.
TheLayer == jobData.layers[1]

\* A character with a meaning to shlex other than that of a separator.
QuotingChars == {"'", "\"", "\\"}

HasChar(s, chars) == \E k \in 1..Len(s) : s[k] \in chars

\* Item k of the mapping has a flag of dashes and word characters and a path
\* value that holds a space and neither a double quote nor a backslash.
PathItem(cmd, k) ==
    /\ DashesThenWord(cmd[k][1][1])
    /\ cmd[k][1][2]
    /\ cmd[k][2] # None
    /\ HasChar(cmd[k][2], {" "})
    /\ ~HasChar(cmd[k][2], {"\"", "\\"})

\* No item other than item k has a quote or a backslash in its value.
OthersPlain(cmd, k) ==
    \A j \in 1..Len(cmd) : j # k => ~HasChar(Format(cmd[j][2]), QuotingChars)

\* The building of the layer raised (launch was not reached).
BuildingRaised == pc = "raised" /\ launchCalls = 0

====
